---- MODULE Spec2Model ----
(***************************************************************************)
(* cath: a cat-like viewer with syntax highlighting (src/src/main.rs).     *)
(*                                                                         *)
(* The program is one function, main.  The model follows it statement by   *)
(* statement: syntax lookup, file read, range computation, construction of *)
(* the line iterator, and one step per iteration of whichever of the four  *)
(* output loops the flags select.  Every panic site of main (unwrap,       *)
(* expect, arithmetic overflow) is a terminal value of pc.                 *)
(*                                                                         *)
(* The highlighting engine (grammar registry, tokenizer, highlighter) is   *)
(* not part of src/: main.rs only calls it.  It is modelled from sections  *)
(* 4.1, 4.3 and 4.4 of the specification, with a registry of two grammars  *)
(* and one theme; those definitions are marked in the comments below.      *)
(* Writes to stdout are assumed to succeed.                                *)
(***************************************************************************)
EXTENDS Integers, Sequences, FiniteSets, TLC

VARIABLES
    args,       \* Args after Args::parse()
    fs,         \* the file at args.file_path: <<>> if it cannot be read, else <<content>>
    pc,         \* position in main, or the panic that ended it
    syntax,     \* name of the grammar chosen at lines 55-58
    h,          \* HighlightLines: the parse state carried between highlight_line calls
    content,    \* the String read at line 66
    start,      \* line 74
    end,        \* line 75
    iter,       \* the skip/take adaptor over LinesWithEndings
    out,        \* what was written to handle, one entry per loop iteration
    calls       \* log of the calls of h.highlight_line

vars == <<args, fs, pc, syntax, h, content, start, end, iter, out, calls>>

----------------------------------------------------------------------------
(* Bounds of the model *)

\* longest file content, in characters
MaxLen == 4
\* largest value given to --start-line / --end-line
MaxArg == 3
\* width of usize in the model; arithmetic on usize is modulo 2^UsizeBits
UsizeBits == 16

USIZE_MAX == 2^UsizeBits - 1

NL == "\n"
QUOTE == "\""
Alphabet == {"a", QUOTE, NL}

RECURSIVE SeqsUpTo(_, _)
SeqsUpTo(S, n) ==
    IF n = 0 THEN {<<>>}
    ELSE LET shorter == SeqsUpTo(S, n - 1)
         IN  shorter \cup {Append(s, c) : s \in {t \in shorter : Len(t) = n - 1}, c \in S}

Contents == SeqsUpTo(Alphabet, MaxLen)

\* Option<T>: <<>> is None, <<v>> is Some(v)
None == <<>>
Some(v) == <<v>>
unwrap_or(o, d) == IF o = None THEN d ELSE o[1]

OptArgs == {None} \cup {Some(n) : n \in 0..MaxArg}

\* the path is modelled by its extension
Extensions == {"str", "xyz"}

----------------------------------------------------------------------------
(* Library iterators and integer helpers used by main *)

Range(s) == {s[i] : i \in DOMAIN s}

RECURSIVE Concat(_)
Concat(ss) == IF ss = <<>> THEN <<>> ELSE Head(ss) \o Concat(Tail(ss))

\* usize::saturating_sub (lines 84, 85)
saturating_sub(a, b) == IF a >= b THEN a - b ELSE 0

\* usize subtraction a - b of a build without overflow checks (line 85)
wrapping_sub(a, b) == (a - b + 2^UsizeBits) % 2^UsizeBits

\* LinesWithEndings::from(&content): the lines of the text, each with its
\* terminator; a last line without a terminator is a line too.
RECURSIVE SplitLines(_, _)
SplitLines(text, cur) ==
    IF text = <<>> THEN (IF cur = <<>> THEN <<>> ELSE <<cur>>)
    ELSE IF Head(text) = NL THEN <<Append(cur, NL)>> \o SplitLines(Tail(text), <<>>)
    ELSE SplitLines(Tail(text), Append(cur, Head(text)))

LinesWithEndings(text) == SplitLines(text, <<>>)

\* format!("{:4} ", n): n in decimal, right-aligned in a field of 4, one space
DigitChars == <<"0", "1", "2", "3", "4", "5", "6", "7", "8", "9">>

RECURSIVE Decimal(_)
Decimal(n) ==
    IF n < 10 THEN <<DigitChars[n + 1]>>
    ELSE Append(Decimal(n \div 10), DigitChars[(n % 10) + 1])

Width4(n) ==
    LET d == Decimal(n)
    IN  [i \in 1..(4 - Len(d)) |-> " "] \o d \o <<" ">>

\* the label printed for the enumerate() index line_number (lines 87, 109)
LabelZeroBased(line_number) == Width4(line_number)
LineLabel(line_number) == Width4(line_number + 1)

\* write!(handle, "{}", line) (lines 87, 95)
DisplayTrimmed(line) ==
    IF line # <<>> /\ line[Len(line)] = NL THEN SubSeq(line, 1, Len(line) - 1) ELSE line
Display(line) == line

----------------------------------------------------------------------------
(* Grammar registry (specification 4.1): two grammars.  "Plain Text" has   *)
(* no rules.  "Strings" is the grammar of the scenario of section 8: a     *)
(* quote pushes the string context, a quote inside it pops.                *)

PlainTextGrammar ==
    [name |-> "Plain Text", file_extensions |-> {"txt"}, first_line |-> {},
     contexts |-> << [scope |-> "text.plain", rules |-> <<>>] >>]

StringsGrammarDangling ==
    [name |-> "Strings", file_extensions |-> {"str"}, first_line |-> {QUOTE},
     contexts |-> <<
        [scope |-> "source.str",
         rules |-> << [pat |-> QUOTE, scope |-> "punctuation", op |-> "push", target |-> 3] >>],
        [scope |-> "string",
         rules |-> << [pat |-> QUOTE, scope |-> "punctuation", op |-> "pop", target |-> 0] >>] >>]

StringsGrammar ==
    [name |-> "Strings", file_extensions |-> {"str"}, first_line |-> {QUOTE},
     contexts |-> <<
        [scope |-> "source.str",
         rules |-> << [pat |-> QUOTE, scope |-> "punctuation", op |-> "push", target |-> 2] >>],
        [scope |-> "string",
         rules |-> << [pat |-> QUOTE, scope |-> "punctuation", op |-> "pop", target |-> 0],
                      [pat |-> "a", scope |-> "string.content", op |-> "match", target |-> 0] >>] >>]

\* SyntaxSet::load_defaults_newlines() (line 48)
psDangling == <<PlainTextGrammar, StringsGrammarDangling>>
ps == <<PlainTextGrammar, StringsGrammar>>

GrammarOf(name) == CHOOSE g \in Range(ps) : g.name = name

\* find_syntax_plain_text (line 58)
find_syntax_plain_text == PlainTextGrammar.name

find_syntax_by_extension(ext) ==
    LET hits == {i \in DOMAIN ps : ext \in ps[i].file_extensions}
    IN  IF hits = {} THEN None
        ELSE Some(ps[CHOOSE i \in hits : \A j \in hits : i <= j].name)

find_syntax_by_first_line(line) ==
    LET hits == {i \in DOMAIN ps : line # <<>> /\ line[1] \in ps[i].first_line}
    IN  IF hits = {} THEN None
        ELSE Some(ps[CHOOSE i \in hits : \A j \in hits : i <= j].name)

FirstLine(text) == LET ls == LinesWithEndings(text) IN IF ls = <<>> THEN <<>> ELSE ls[1]

Ok(v) == [ok |-> TRUE, val |-> v]
Err == [ok |-> FALSE, val |-> None]

\* ps.find_syntax_for_file(&args.file_path) (line 56): Result<Option<SyntaxReference>>.
\* By extension first; when the extension is unknown the file is opened and its
\* first line is tried, and a file that cannot be opened is the Err.
find_syntax_for_file(ext, file) ==
    LET ext_syntax == find_syntax_by_extension(ext)
    IN  IF ext_syntax # None THEN Ok(ext_syntax)
        ELSE IF file = None THEN Err
        ELSE Ok(find_syntax_by_first_line(FirstLine(file[1])))

\* .unwrap_or_else(|| ps.find_syntax_plain_text()) (line 58)
SyntaxOrPlainText(opt) == IF opt = None THEN find_syntax_plain_text ELSE opt[1]

----------------------------------------------------------------------------
(* Theme registry (specification 4.2) and the theme main selects (line 61) *)

Theme ==
    [name |-> "base16-ocean.dark", default |-> "fg:grey",
     rules |-> << [selector |-> "string", style |-> "fg:green"],
                  [selector |-> "punctuation", style |-> "fg:grey"] >>]

Styles == {Theme.default} \cup {Theme.rules[i].style : i \in DOMAIN Theme.rules}

----------------------------------------------------------------------------
(* Tokenizer (specification 4.3).  The parse state is the stack of indices *)
(* of active contexts in the grammar's arena; a token is one matched       *)
(* character with its scope path, innermost last.                          *)

\* initial state: the grammar's root context
InitialStack == <<1>>

ScopePath(g, stack) == [i \in DOMAIN stack |-> g.contexts[stack[i]].scope]

\* first rule of the context, in declaration order, that matches c; 0 if none
RuleAt(ctx, c) ==
    LET hits == {i \in DOMAIN ctx.rules : ctx.rules[i].pat = c}
    IN  IF hits = {} THEN 0 ELSE CHOOSE i \in hits : \A j \in hits : i <= j

\* one step of 4.3 on character c: [ok, token, stack]
TokenStep(g, stack, c) ==
    IF stack = <<>> \/ stack[Len(stack)] \notin DOMAIN g.contexts
    THEN [ok |-> FALSE, token |-> <<>>, stack |-> stack]
    ELSE
    LET ctx == g.contexts[stack[Len(stack)]]
        r   == RuleAt(ctx, c)
        here == ScopePath(g, stack)
    IN  IF r = 0
        THEN [ok |-> TRUE, token |-> [text |-> <<c>>, path |-> here], stack |-> stack]
        ELSE LET rule == ctx.rules[r]
                 tok  == [text |-> <<c>>, path |-> Append(here, rule.scope)]
             IN  CASE rule.op = "match" -> [ok |-> TRUE, token |-> tok, stack |-> stack]
                   [] rule.op = "push" ->
                        IF rule.target \in DOMAIN g.contexts
                        THEN [ok |-> TRUE, token |-> tok, stack |-> Append(stack, rule.target)]
                        ELSE [ok |-> FALSE, token |-> <<>>, stack |-> stack]
                   [] rule.op = "pop" ->
                        [ok |-> TRUE, token |-> tok,
                         stack |-> IF Len(stack) > 1 THEN SubSeq(stack, 1, Len(stack) - 1)
                                   ELSE stack]

\* the tokens of a line from a carried state: [ok, tokens, stack]
RECURSIVE Tokenize(_, _, _, _)
Tokenize(g, stack, line, tokens) ==
    IF line = <<>> THEN [ok |-> TRUE, tokens |-> tokens, stack |-> stack]
    ELSE LET st == TokenStep(g, stack, Head(line))
         IN  IF ~st.ok THEN [ok |-> FALSE, tokens |-> <<>>, stack |-> stack]
             ELSE Tokenize(g, st.stack, Tail(line), Append(tokens, st.token))

----------------------------------------------------------------------------
(* Highlighter (specification 4.4) *)

\* specificity of a selector against a scope path: the deeper the matching
\* segment, the higher; 0 when the selector does not match
Score(selector, path) ==
    LET hits == {i \in DOMAIN path : path[i] = selector}
    IN  IF hits = {} THEN 0 ELSE CHOOSE i \in hits : \A j \in hits : i >= j

\* best-scoring rule wins, a later rule wins a tie; no rule: the default style
ResolveStyle(theme, path) ==
    LET matching == {i \in DOMAIN theme.rules : Score(theme.rules[i].selector, path) > 0}
        Better(i, j) ==
            LET si == Score(theme.rules[i].selector, path)
                sj == Score(theme.rules[j].selector, path)
            IN  si > sj \/ (si = sj /\ i >= j)
    IN  IF matching = {} THEN theme.default
        ELSE theme.rules[CHOOSE i \in matching : \A j \in matching : Better(i, j)].style

\* adjacent tokens of one style become one span <<style, text>>
RECURSIVE NoMerge(_, _)
NoMerge(styled, spans) ==
    IF styled = <<>> THEN spans
    ELSE NoMerge(Tail(styled), Append(spans, Head(styled)))

RECURSIVE MergeAdjacent(_, _)
MergeAdjacent(styled, spans) ==
    IF styled = <<>> THEN spans
    ELSE LET t == Head(styled)
             n == Len(spans)
         IN  IF n > 0 /\ spans[n][1] = t[1]
             THEN MergeAdjacent(Tail(styled),
                                [spans EXCEPT ![n] = <<t[1], spans[n][2] \o t[2]>>])
             ELSE MergeAdjacent(Tail(styled), Append(spans, t))

\* HighlightLines::new(syntax, theme) (line 61)
HighlightLines_new(syn) == [syntax |-> syn, stack |-> InitialStack]

\* h.highlight_line(line, &ps) (lines 111, 124): Result<Vec<(Style, &str)>>,
\* and the state h carries to the next call
highlight_line(hl, line) ==
    LET tk == Tokenize(GrammarOf(hl.syntax), hl.stack, line, <<>>)
        styled == [i \in DOMAIN tk.tokens |->
                     <<ResolveStyle(Theme, tk.tokens[i].path), tk.tokens[i].text>>]
    IN  IF ~tk.ok THEN [ok |-> FALSE, ranges |-> <<>>, h |-> hl]
        ELSE [ok |-> TRUE, ranges |-> MergeAdjacent(styled, <<>>),
              h |-> [hl EXCEPT !.stack = tk.stack]]

\* as_24_bit_terminal_escaped(&ranges[..], false) (lines 113, 126): for each
\* span the escape sequence selecting its foreground colour, then its text.
\* The escape sequence is one unit of output, named by the style.
RECURSIVE as_24_bit_terminal_escaped(_)
as_24_bit_terminal_escaped(ranges) ==
    IF ranges = <<>> THEN <<>>
    ELSE <<Head(ranges)[1]>> \o Head(ranges)[2] \o as_24_bit_terminal_escaped(Tail(ranges))

----------------------------------------------------------------------------
(* main *)

Init ==
    /\ args \in [file_path : Extensions, plain : BOOLEAN, line_numbers : BOOLEAN,
                 start_line : OptArgs, end_line : OptArgs]
    /\ fs \in {None} \cup {Some(c) : c \in Contents}
    /\ pc = "lookup"
    /\ syntax = ""
    /\ h = [syntax |-> "", stack |-> <<>>]
    /\ content = <<>>
    /\ start = 0
    /\ end = 0
    /\ iter = [skip |-> 0, take |-> 0, taken |-> 0]
    /\ out = <<>>
    /\ calls = <<>>

\* lines 55-61: find the syntax, fall back to plain text, create the highlighter
Lookup ==
    /\ pc = "lookup"
    /\ LET found == find_syntax_for_file(args.file_path, fs)
       IN  IF ~found.ok
           THEN /\ pc' = "panic_lookup"
                /\ UNCHANGED <<syntax, h>>
           ELSE /\ syntax' = SyntaxOrPlainText(found.val)
                /\ h' = HighlightLines_new(syntax')
                /\ pc' = "read"
    /\ UNCHANGED <<args, fs, content, start, end, iter, out, calls>>

\* lines 64-66: fs::read_to_string(path).expect("Failed to read the file")
ReadFile ==
    /\ pc = "read"
    /\ IF fs = None
       THEN /\ pc' = "panic_read"
            /\ UNCHANGED content
       ELSE /\ content' = fs[1]
            /\ pc' = "range"
    /\ UNCHANGED <<args, fs, syntax, h, start, end, iter, out, calls>>

\* lines 74-75
LineRange ==
    /\ pc = "range"
    /\ start' = unwrap_or(args.start_line, 1)
    /\ end' = unwrap_or(args.end_line, USIZE_MAX)
    /\ pc' = "iter"
    /\ UNCHANGED <<args, fs, syntax, h, content, iter, out, calls>>

\* .skip(start.saturating_sub(1)) (lines 84, 92, 106, 120)
SkipCount(s) == saturating_sub(s, 1)

\* .take(end.saturating_sub(start - 1)) (lines 85, 93, 107, 121), given start - 1
TakeUpToEnd(e, start_minus_1) == e
TakeCount(e, start_minus_1) == saturating_sub(e, start_minus_1)

\* The iterator of the selected loop is built before its first iteration.  The
\* same expression stands in all four loops.  start - 1 on a start of 0 panics
\* in a build with overflow checks and wraps in a build without them.
IntoIter ==
    /\ pc = "iter"
    /\ \E overflow_checks \in BOOLEAN :
         IF start < 1 /\ overflow_checks
         THEN /\ pc' = "panic_overflow"
              /\ UNCHANGED iter
         ELSE /\ iter' = [skip |-> SkipCount(start),
                          take |-> TakeCount(end, wrapping_sub(start, 1)),
                          taken |-> 0]
              /\ pc' = "loop"
    /\ UNCHANGED <<args, fs, syntax, h, content, start, end, out, calls>>

lines == LinesWithEndings(content)

\* Take yields while fewer than take items were taken; Skip drops the first
\* skip items of the underlying iterator; enumerate() counts from 0 before
\* the skip, so the index of the item is skip + taken.
HasNext == iter.taken < iter.take /\ iter.skip + iter.taken < Len(lines)
line_number == iter.skip + iter.taken
line == lines[line_number + 1]

Advance == iter' = [iter EXCEPT !.taken = @ + 1]

\* &ranges[..] (lines 113, 126): the whole vector
SliceFromOne(ranges) == IF ranges = <<>> THEN <<>> ELSE Tail(ranges)
FullSlice(ranges) == ranges

\* one entry of out: the 0-based index of the line in the file, what was
\* written before the line's text, and what was written for the text
Written(i, prefix, body) == [item |-> i, prefix |-> prefix, body |-> body]

\* lines 82-88
PlainNumbered ==
    /\ pc = "loop" /\ args.plain /\ args.line_numbers
    /\ HasNext
    /\ out' = Append(out, Written(line_number, LineLabel(line_number), Display(line)))
    /\ Advance
    /\ UNCHANGED <<args, fs, pc, syntax, h, content, start, end, calls>>

\* lines 91-96
Plain ==
    /\ pc = "loop" /\ args.plain /\ ~args.line_numbers
    /\ HasNext
    /\ out' = Append(out, Written(line_number, <<>>, Display(line)))
    /\ Advance
    /\ UNCHANGED <<args, fs, pc, syntax, h, content, start, end, calls>>

Call(i, l, stack_in, res) ==
    [item |-> i, line |-> l, stack_in |-> stack_in, ok |-> res.ok, ranges |-> res.ranges]

\* lines 104-116: the label is written before the line is highlighted
HighlightNumbered ==
    /\ pc = "loop" /\ ~args.plain /\ args.line_numbers
    /\ HasNext
    /\ LET res == highlight_line(h, line)
       IN  /\ calls' = Append(calls, Call(line_number, line, h.stack, res))
           /\ h' = res.h
           /\ IF ~res.ok
              THEN /\ out' = Append(out, Written(line_number, LineLabel(line_number), <<>>))
                   /\ pc' = "panic_highlight"
                   /\ UNCHANGED iter
              ELSE /\ out' = Append(out, Written(line_number, LineLabel(line_number),
                                                 as_24_bit_terminal_escaped(FullSlice(res.ranges))))
                   /\ Advance
                   /\ UNCHANGED pc
    /\ UNCHANGED <<args, fs, syntax, content, start, end>>

\* lines 119-129
Highlight ==
    /\ pc = "loop" /\ ~args.plain /\ ~args.line_numbers
    /\ HasNext
    /\ LET res == highlight_line(h, line)
       IN  /\ calls' = Append(calls, Call(line_number, line, h.stack, res))
           /\ h' = res.h
           /\ IF ~res.ok
              THEN /\ pc' = "panic_highlight"
                   /\ UNCHANGED <<iter, out>>
              ELSE /\ out' = Append(out, Written(line_number, <<>>,
                                                 as_24_bit_terminal_escaped(FullSlice(res.ranges))))
                   /\ Advance
                   /\ UNCHANGED pc
    /\ UNCHANGED <<args, fs, syntax, content, start, end>>

\* the iterator is exhausted: main returns (lines 99, 133)
LoopEnd ==
    /\ pc = "loop"
    /\ ~HasNext
    /\ pc' = "done"
    /\ UNCHANGED <<args, fs, syntax, h, content, start, end, iter, out, calls>>

Next ==
    \/ Lookup
    \/ ReadFile
    \/ LineRange
    \/ IntoIter
    \/ PlainNumbered
    \/ Plain
    \/ HighlightNumbered
    \/ Highlight
    \/ LoopEnd

Spec == Init /\ [][Next]_vars

----------------------------------------------------------------------------
(* Vocabulary of the properties *)

\* the request as given on the command line
ReqStart == IF args.start_line = None THEN 1 ELSE args.start_line[1]
ReqEnd == IF args.end_line = None THEN USIZE_MAX ELSE args.end_line[1]

\* the file as it is on disk
FileLines == IF fs = None THEN <<>> ELSE LinesWithEndings(fs[1])

UnknownExtension(ext) == \A i \in DOMAIN ps : ext \notin ps[i].file_extensions

\* 1-indexed numbers of the lines written, in the order written
WrittenNumbers == [i \in DOMAIN out |-> out[i].item + 1]

StrictlyIncreasing(s) == \A i \in DOMAIN s : i > 1 => s[i - 1] < s[i]

\* the lines a request for s..e selects from the file
Selected(s, e) == {n \in 1..Len(FileLines) : s <= n /\ n <= e}

\* the bytes on stdout
Stdout == Concat([i \in DOMAIN out |-> out[i].prefix \o out[i].body])

\* output with the colour escape sequences removed
StripStyle(units) == SelectSeq(units, LAMBDA u : u \notin Styles)

SpanText(ranges) == Concat([i \in DOMAIN ranges |-> ranges[i][2]])

\* the number a line-number prefix shows: blanks, decimal digits, one blank;
\* -1 if the units are not of that form
DigitValue(c) == CHOOSE d \in 0..9 : DigitChars[d + 1] = c

RECURSIVE DecimalValue(_)
DecimalValue(ds) ==
    IF ds = <<>> THEN 0
    ELSE 10 * DecimalValue(SubSeq(ds, 1, Len(ds) - 1)) + DigitValue(ds[Len(ds)])

LabelValue(p) ==
    LET blanks == {i \in DOMAIN p : \A j \in 1..i : p[j] = " "}
        first  == Cardinality(blanks) + 1
        digits == SubSeq(p, first, Len(p) - 1)
    IN  IF /\ Len(p) >= 5
           /\ p[Len(p)] = " "
           /\ digits # <<>>
           /\ \A i \in DOMAIN digits : digits[i] \in Range(DigitChars)
        THEN DecimalValue(digits)
        ELSE -1

\* the parse state after the first k lines of the file, tokenized from the
\* initial state
RECURSIVE StackAfter(_, _)
StackAfter(g, k) ==
    IF k = 0 THEN InitialStack
    ELSE Tokenize(g, StackAfter(g, k - 1), FileLines[k], <<>>).stack

----------------------------------------------------------------------------
(* Properties *)

\* C1: for a start >= 1, in all four output modes, a finished run has written
\* exactly the lines n of the file with start <= n <= end, each once, in file
\* order and with their own text; an end beyond the last line selects up to
\* the last line, start > end selects nothing, and no such request panics in
\* the range arithmetic or in the loop.
C1_RangeSelection ==
    ReqStart >= 1 =>
        /\ pc \notin {"panic_overflow", "panic_highlight"}
        /\ StrictlyIncreasing(WrittenNumbers)
        /\ Range(WrittenNumbers) \subseteq Selected(ReqStart, ReqEnd)
        /\ pc = "done" => Range(WrittenNumbers) = Selected(ReqStart, ReqEnd)
        /\ \A i \in DOMAIN out : StripStyle(out[i].body) = FileLines[out[i].item + 1]

\* C1 witness: a finished highlighted run whose range starts after line 1 and
\* ends beyond the last line, and that wrote at least two lines
C1_Witness ==
    /\ pc = "done" /\ ~args.plain
    /\ ReqStart >= 2 /\ ReqEnd > Len(FileLines)
    /\ Len(out) >= 2

\* C2: a request with start-line 0 completes without error and writes the
\* same lines as the request with start-line 1.
C2_StartZeroIsStartOne ==
    args.start_line = Some(0) =>
        /\ pc # "panic_overflow"
        /\ pc = "done" => Range(WrittenNumbers) = Selected(1, ReqEnd)

\* C3: the texts of the spans highlight_line returns for a line concatenate to
\* that line, terminator included, and the highlighted output with the escape
\* sequences removed is the text of the selected lines.
C3_Lossless ==
    /\ \A i \in DOMAIN calls : calls[i].ok => SpanText(calls[i].ranges) = calls[i].line
    /\ ~args.plain =>
         StripStyle(Concat([i \in DOMAIN out |-> out[i].body]))
            = Concat([i \in DOMAIN out |-> FileLines[out[i].item + 1]])

\* C3 witness: a highlighted run that wrote two lines, one of them in more
\* than one span
C3_Witness ==
    /\ pc = "done" /\ ~args.plain
    /\ Len(calls) >= 2
    /\ \E i \in DOMAIN calls : Len(calls[i].ranges) >= 2

\* C4: no two adjacent spans of a line have the same style.
C4_AdjacentStylesDiffer ==
    \A i \in DOMAIN calls :
        \A k \in 1..(Len(calls[i].ranges) - 1) :
            calls[i].ranges[k][1] # calls[i].ranges[k + 1][1]

\* C4 witness: a line of which several characters were merged into one span
\* and that still has two spans
C4_Witness ==
    \E i \in DOMAIN calls :
        /\ Len(calls[i].ranges) >= 2
        /\ Len(calls[i].ranges) < Len(calls[i].line)

\* C5: a file with an unknown extension resolves to the plain-text
\* grammar whatever its content.
C5_UnknownExtensionIsPlainText ==
    (UnknownExtension(args.file_path) /\ pc \notin {"lookup", "panic_lookup"})
        => syntax = find_syntax_plain_text

\* C6: the lookup step never ends in an error or an abort, also for a path
\* that cannot be opened.
C6_LookupNeverAborts == pc # "panic_lookup"

\* C7: highlighting a line of a file that was read returns a span sequence;
\* the highlighting loop never aborts.
C7_HighlightNeverFails ==
    /\ pc # "panic_highlight"
    /\ \A i \in DOMAIN calls : calls[i].ok

\* C7 witness: a finished highlighted run of three lines that ends inside an
\* unterminated string
C7_Witness ==
    /\ pc = "done"
    /\ Len(calls) >= 3
    /\ Len(h.stack) = 2

\* C8: the parse state in effect when line k is highlighted is the state
\* after tokenizing lines 1..k-1 of the file from the initial state.
C8_StateCarriedFromFileStart ==
    \A i \in DOMAIN calls :
        calls[i].stack_in = StackAfter(GrammarOf(syntax), calls[i].item)

\* C9: with line numbers on, every written line has one prefix showing its
\* 1-indexed position in the file; the prefixes increase by 1 and the first
\* is the start line.
C9_LineNumberPrefix ==
    args.line_numbers =>
        \A i \in DOMAIN out :
            /\ LabelValue(out[i].prefix) = out[i].item + 1
            /\ i = 1 => LabelValue(out[i].prefix) = ReqStart
            /\ i > 1 => LabelValue(out[i].prefix) = LabelValue(out[i - 1].prefix) + 1

\* C9 witness: a finished numbered, highlighted run from a start line after 1
\* that wrote two lines
C9_Witness ==
    /\ pc = "done" /\ args.line_numbers /\ ~args.plain
    /\ ReqStart >= 2
    /\ Len(out) >= 2

\* C10: in plain mode highlight_line is never called and every line is
\* written unchanged with nothing but the optional prefix before it; plain,
\* unnumbered and without a range, the output is the file content.
C10_PlainIsVerbatim ==
    args.plain =>
        /\ calls = <<>>
        /\ \A i \in DOMAIN out :
              /\ out[i].body = FileLines[out[i].item + 1]
              /\ ~args.line_numbers => out[i].prefix = <<>>
        /\ (pc = "done" /\ ~args.line_numbers
                /\ args.start_line = None /\ args.end_line = None)
              => Stdout = fs[1]

\* C10 witness: a finished plain run without numbers and range on a file of
\* two lines whose last line has no terminator
C10_Witness ==
    /\ pc = "done" /\ args.plain /\ ~args.line_numbers
    /\ args.start_line = None /\ args.end_line = None
    /\ Len(out) >= 2
    /\ fs[1][Len(fs[1])] # NL

====
